---- MODULE Spec2Model ----
(***************************************************************************)
(* vidshort: the memoized database connection (src/lib/db.ts) and its      *)
(* evaluation on hot reload, the registration handler, the User model with *)
(* its pre-save hook, the credential verifier (src/lib/auth.ts), and the   *)
(* route middleware with its authorized callback and matcher.              *)
(*                                                                         *)
(* Execution model: one JavaScript thread.  Every `await` suspends the     *)
(* async function; its continuation is a promise reaction job that is put  *)
(* at the tail of the FIFO job queue `mq` when the awaited promise settles *)
(* (or at once when it is already settled), and jobs run one at a time     *)
(* from the head of the queue.                                             *)
(***************************************************************************)
EXTENDS Naturals, Sequences, FiniteSets

VARIABLES
    cached,        \* db.ts:18   the cache entry {conn, promise}
    promises,      \* state of every promise made at db.ts:40, in order of creation
    reactions,     \* per promise: the callers whose await is attached to it, in order
    mq,            \* the job queue: handler, mongoose and await continuations
    pc,            \* per caller: where its connectToDatabase call stands
    awaited,       \* per caller: the promise its `await cached.promise` reads (0: none)
    ret,           \* per caller: what the call returned or threw
    began,         \* per caller: what the call saw when it began, what it did
    calls,         \* number of connectToDatabase calls started so far
    users,         \* the User collection, in order of insertion
    handler,       \* per caller: the request handler it runs and the handler's locals
    response,      \* per caller: what its handler answered, returned or threw
    requests,      \* number of requests received so far
    saves,         \* number of saves of existing user documents so far
    evaluations,   \* db.ts:18  number of times the db module has been evaluated
    visits,        \* per visitor: the request it sent and how far the server took it
    build          \* how the build compiled the blank that ends config.matcher

dbvars == <<cached, promises, reactions, mq, pc, awaited, ret, began, calls>>
sitevars == <<evaluations, visits, build>>
appvars == <<users, handler, response, requests, saves, evaluations, visits, build>>
vars == <<cached, promises, reactions, mq, pc, awaited, ret, began, calls,
          users, handler, response, requests, saves, evaluations, visits, build>>

\* ---------------------------------------------------------------- bounds
NumCallers  == 3
MaxCalls    == 5
MaxAttempts == 3
NumClients  == 2
MaxRequests == 2
MaxSaves    == 2
MaxReloads  == 1

Callers == 1 .. NumCallers
Clients == 1 .. NumClients
\* "" is the missing email, << >> the missing password
Passwords == {<<"p">>, <<"q">>}
RegisterBodies ==
    { <<"", <<"p">> >>, <<"a@x.io", << >> >>, <<"a@x.io", <<"p">> >>, <<"b@x.io", <<"q">> >> }
Credentials ==
    { <<"", <<"p">> >>, <<"a@x.io", << >> >>, <<"a@x.io", <<"p">> >>, <<"a@x.io", <<"q">> >>,
      <<"b@x.io", <<"p">> >>, <<"c@x.io", <<"p">> >> }
Salts == {"s1", "s2"}

\* ---------------------------------------------------------------- values
null == "null"
\* db.ts:40  .then((mongoose) => mongoose.connection): the default connection
\* of the imported mongoose instance
MongooseConnection == "mongoose.connection"
\* db.ts:49
DatabaseConnectionFailed == "Database connection failed."
NoPromise == 0

\* What a call saw when it began (the handle, whether the stored promise had
\* already been rejected, whether any attempt had completed) and whether it
\* called mongoose.connect.
NoCall == [conn |-> null, stale |-> FALSE, settled |-> FALSE, started |-> FALSE]

\* ---------------------------------------------------------------- db.ts
\* db.ts:28  if (cached.conn)   (HasConnMut: the early return left out)
HasConnMut == FALSE
HasConn == cached.conn # null

\* db.ts:33  if (!cached.promise)   (NoStoredPromiseMut: the test left out)
NoStoredPromiseMut == TRUE
NoStoredPromise == cached.promise = NoPromise

\* db.ts:47  cached.promise = null
ResetPromise == NoPromise

\* db.ts:45  cached.conn = await cached.promise  (the resolved value)
ResolvedValue == MongooseConnection

\* db.ts:49  throw new Error("Database connection failed.")
ThrownError(p) == DatabaseConnectionFailed

AnySettled == \E p \in 1 .. Len(promises) : promises[p] \in {"fulfilled", "rejected"}
StoredPromiseRejected ==
    cached.promise # NoPromise /\ promises[cached.promise] = "rejected"

\* A user document: `plain` is the plaintext last assigned to its password
\* field, `kept` the number of saves since then that left the field as loaded.
NoUser == [id |-> 0, email |-> "", password |-> << >>, plain |-> << >>, kept |-> 0]
NoHandler == [kind |-> "none", stage |-> "done", email |-> "", password |-> << >>,
              user |-> NoUser, duplicate |-> FALSE, thrown |-> null]
NoResponse == [type |-> "none", status |-> 0, message |-> "", value |-> [none |-> TRUE]]

InitFor(cs, store) ==
    /\ cached = [conn |-> null, promise |-> NoPromise]
    /\ promises = << >>
    /\ reactions = << >>
    /\ mq = << >>
    /\ pc = [c \in cs |-> "idle"]
    /\ awaited = [c \in cs |-> NoPromise]
    /\ ret = [c \in cs |-> null]
    /\ began = [c \in cs |-> NoCall]
    /\ calls = 0
    /\ users = store
    /\ handler = [c \in cs |-> NoHandler]
    /\ response = [c \in cs |-> NoResponse]
    /\ requests = 0
    /\ saves = 0
    /\ evaluations = 1
    /\ visits = << >>
    /\ build = "ignored"

DbInit == InitFor(Callers, << >>)

\* A task of the event loop (an incoming request, an I/O callback) starts the
\* handler of caller c.  A task runs only when the job queue has been drained;
\* one task may start several handlers.
Request(c) ==
    /\ pc[c] \in {"idle", "returned", "threw"}
    /\ \A i \in 1 .. Len(mq) : mq[i].kind = "start"
    /\ calls < MaxCalls
    /\ calls' = calls + 1
    /\ pc' = [pc EXCEPT ![c] = "calling"]
    /\ awaited' = [awaited EXCEPT ![c] = NoPromise]
    /\ ret' = [ret EXCEPT ![c] = null]
    /\ began' = [began EXCEPT ![c] = NoCall]
    /\ mq' = Append(mq, [kind |-> "start", id |-> c])
    /\ UNCHANGED <<cached, promises, reactions>>

\* db.ts:27-45  connectToDatabase up to its await
connectToDatabase(c) ==
    LET seen == [conn |-> cached.conn, stale |-> StoredPromiseRejected,
                 settled |-> AnySettled, started |-> FALSE]
    IN
    IF HasConn
    THEN \* db.ts:28-30
         /\ pc' = [pc EXCEPT ![c] = "returned"]
         /\ ret' = [ret EXCEPT ![c] = cached.conn]
         /\ began' = [began EXCEPT ![c] = seen]
         /\ UNCHANGED <<cached, promises, reactions, awaited>>
    ELSE IF NoStoredPromise
    THEN \* db.ts:33-41 then 45: a new promise, stored, and awaited
         /\ Len(promises) < MaxAttempts
         /\ promises' = Append(promises, "pending")
         /\ reactions' = Append(reactions, <<c>>)
         /\ cached' = [cached EXCEPT !.promise = Len(promises) + 1]
         /\ awaited' = [awaited EXCEPT ![c] = Len(promises) + 1]
         /\ pc' = [pc EXCEPT ![c] = "awaiting"]
         /\ began' = [began EXCEPT ![c] = [seen EXCEPT !.started = TRUE]]
         /\ UNCHANGED ret
    ELSE \* db.ts:45: await the stored promise
         /\ awaited' = [awaited EXCEPT ![c] = cached.promise]
         /\ pc' = [pc EXCEPT ![c] = "awaiting"]
         /\ began' = [began EXCEPT ![c] = seen]
         /\ reactions' = [reactions EXCEPT ![cached.promise] = Append(@, c)]
         /\ UNCHANGED <<cached, promises, ret>>

\* db.ts:45-53  connectToDatabase from its await on
Resume(c) ==
    LET p == awaited[c] IN
    IF promises[p] = "fulfilled"
    THEN \* db.ts:45, 53
         /\ cached' = [cached EXCEPT !.conn = ResolvedValue]
         /\ pc' = [pc EXCEPT ![c] = "returned"]
         /\ ret' = [ret EXCEPT ![c] = cached'.conn]
    ELSE \* db.ts:46-49
         /\ cached' = [cached EXCEPT !.promise = ResetPromise]
         /\ pc' = [pc EXCEPT ![c] = "threw"]
         /\ ret' = [ret EXCEPT ![c] = ThrownError(p)]

HeadIs(kinds) == mq # << >> /\ Head(mq).kind \in kinds

\* The handler job at the head of the queue calls connectToDatabase().  A new
\* attempt puts mongoose's own continuation in the queue; an await of a
\* promise that is already settled queues the call's continuation at once.
RunCall ==
    /\ HeadIs({"start", "call"})
    /\ LET c == Head(mq).id IN
       /\ connectToDatabase(c)
       /\ mq' = IF pc'[c] # "awaiting" THEN Tail(mq)
                ELSE IF began'[c].started
                THEN Append(Tail(mq), [kind |-> "connect", id |-> awaited'[c]])
                ELSE IF promises[awaited'[c]] \in {"fulfilled", "rejected"}
                THEN Append(Tail(mq), [kind |-> "resume", id |-> c])
                ELSE Tail(mq)
    /\ UNCHANGED calls
    /\ UNCHANGED appvars

\* The continuation of `await cached.promise` at the head of the queue runs.
RunResume ==
    /\ HeadIs({"resume"})
    /\ Resume(Head(mq).id)
    /\ mq' = Tail(mq)
    /\ UNCHANGED <<promises, reactions, awaited, began, calls>>
    /\ UNCHANGED appvars

\* The job at the head of the queue (a handler before its call, or mongoose
\* inside connect) awaits something already settled: its continuation goes to
\* the tail of the queue.
Yield ==
    /\ HeadIs({"start", "call", "connect"})
    /\ Len(mq) > 1
    /\ mq' = Append(Tail(mq), [Head(mq) EXCEPT !.kind = IF @ = "start" THEN "call" ELSE @])
    /\ UNCHANGED <<cached, promises, reactions, pc, awaited, ret, began, calls>>
    /\ UNCHANGED appvars

RECURSIVE ReactionJobs(_)
ReactionJobs(cs) ==
    IF cs = << >> THEN << >>
    ELSE <<[kind |-> "resume", id |-> Head(cs)]>> \o ReactionJobs(Tail(cs))

\* The promise stored at db.ts:40 settles: the reactions attached to it are
\* queued in the order they were attached.
Settle(p, outcome, rest) ==
    /\ promises' = [promises EXCEPT ![p] = outcome]
    /\ mq' = rest \o ReactionJobs(reactions[p])
    /\ UNCHANGED <<cached, reactions, pc, awaited, ret, began, calls>>
    /\ UNCHANGED appvars

\* mongoose.connect rejects without waiting for the network (a connection
\* string it cannot use, an option it refuses).
ConnectRejects ==
    /\ HeadIs({"connect"})
    /\ Settle(Head(mq).id, "rejected", Tail(mq))

\* mongoose.connect goes on to wait for the network.
ConnectWaits ==
    /\ HeadIs({"connect"})
    /\ promises' = [promises EXCEPT ![Head(mq).id] = "io"]
    /\ mq' = Tail(mq)
    /\ UNCHANGED <<cached, reactions, pc, awaited, ret, began, calls>>
    /\ UNCHANGED appvars

\* The network answers, in a task of its own.
ConnectSucceeds ==
    \E p \in 1 .. Len(promises) :
        mq = << >> /\ promises[p] = "io" /\ Settle(p, "fulfilled", mq)

ConnectFails ==
    \E p \in 1 .. Len(promises) :
        mq = << >> /\ promises[p] = "io" /\ Settle(p, "rejected", mq)

\* A caller that only connects.
NewRequest == \E c \in DOMAIN pc : Request(c) /\ UNCHANGED appvars

DbNext ==
    \/ NewRequest
    \/ RunCall
    \/ RunResume
    \/ Yield
    \/ ConnectRejects
    \/ ConnectWaits
    \/ ConnectSucceeds
    \/ ConnectFails

Spec == DbInit /\ [][DbNext]_vars

\* ---------------------------------------------------------------- hot reload
\* db.ts:16-18  global.mongoose: read when the module is evaluated; no
\* statement of the program assigns it
undefined == "undefined"
GlobalMongoose == undefined

\* db.ts:18  let cached = global.mongoose || { conn: null, promise: null }
ModuleEvaluation ==
    IF GlobalMongoose # undefined THEN GlobalMongoose
    ELSE [conn |-> null, promise |-> NoPromise]

\* The development server evaluates the db module again, in a task of its
\* own: `cached` of the new evaluation is what connectToDatabase reads from
\* now on.  The calls of the previous evaluation that are still waiting finish
\* against its entry, which no later call reads: they leave the model.
Reload ==
    /\ mq = << >>
    /\ evaluations < 1 + MaxReloads
    /\ evaluations' = evaluations + 1
    /\ cached' = ModuleEvaluation
    /\ reactions' = [p \in DOMAIN reactions |-> << >>]
    /\ pc' = [c \in DOMAIN pc |-> IF pc[c] = "awaiting" THEN "idle" ELSE pc[c]]
    /\ awaited' = [c \in DOMAIN pc |-> IF pc[c] = "awaiting" THEN NoPromise ELSE awaited[c]]
    /\ began' = [c \in DOMAIN pc |-> IF pc[c] = "awaiting" THEN NoCall ELSE began[c]]
    /\ UNCHANGED <<promises, mq, ret, calls>>
    /\ UNCHANGED <<users, handler, response, requests, saves, visits, build>>

ReloadNext ==
    \/ NewRequest
    \/ RunCall
    \/ RunResume
    \/ Yield
    \/ ConnectRejects
    \/ ConnectWaits
    \/ ConnectSucceeds
    \/ ConnectFails
    \/ Reload

SpecReload == DbInit /\ [][ReloadNext]_vars

\* ---------------------------------------------------------------- models/User
\* bcrypt.hash(password, 10) (User model, pre-save hook): a string that
\* carries the algorithm and cost, the salt, and the digest of the input
\* under that salt.
BcryptHash(s, salt) == <<"$2a$10$", salt>> \o s

\* bcrypt.compare(password, hash) (auth.ts:43): hash the input again under the
\* salt the stored string carries   (BcryptCompareMut: any password passes)
BcryptCompareMut(s, h) == TRUE
BcryptCompare(s, h) == Len(h) >= 2 /\ h[1] = "$2a$10$" /\ h = BcryptHash(s, h[2])

\* userSchema.pre("save"): hash the password only if it has been modified
\* (PreSaveMut: the hook left out; PreSaveRehashMut: the isModified test left
\* out)
PreSaveMut(doc, modified, salt) == doc
PreSaveRehashMut(doc, modified, salt) ==
    [doc EXCEPT !.password = BcryptHash(doc.password, salt)]
PreSave(doc, modified, salt) ==
    IF modified
    THEN [doc EXCEPT !.password = BcryptHash(doc.password, salt)]
    ELSE doc

\* email: { unique: true }: the unique index on email refuses a second document
\* (UniqueIndexRefusesMut: no index)
UniqueIndexRefusesMut(email) == FALSE
UniqueIndexRefuses(email) == \E i \in 1 .. Len(users) : users[i].email = email

\* User.create({ email, password }) on a new document: the pre-save hook sees
\* the password as modified
NewUser(id, email, password, salt) ==
    PreSave([id |-> id, email |-> email, password |-> password, plain |-> password,
             kept |-> 0],
            TRUE, salt)

\* User.findOne({ email })
FindOne(email) ==
    IF \E i \in 1 .. Len(users) : users[i].email = email
    THEN users[CHOOSE i \in 1 .. Len(users) : users[i].email = email]
    ELSE NoUser

\* `!email || !password` (the handlers' presence checks)
Missing(email, password) == email = "" \/ password = << >>

Json(status, message) ==
    [type |-> "json", status |-> status, message |-> message, value |-> [none |-> TRUE]]
Throw(message) ==
    [type |-> "throw", status |-> 0, message |-> message, value |-> [none |-> TRUE]]
Return(value) ==
    [type |-> "return", status |-> 0, message |-> "", value |-> value]

Free(c) == pc[c] \in {"idle", "returned", "threw"} /\ handler[c].stage = "done"

Answer(c, h, r) ==
    /\ handler' = [handler EXCEPT ![c] = [h EXCEPT !.stage = "done"]]
    /\ response' = [response EXCEPT ![c] = r]

\* ---------------------------------------------------------------- POST /register
\* A query or an insert takes effect at the database, at any moment after the
\* handler has issued it; each is atomic on its one document.
\* lines 13-26: parse the body, check presence, call connectToDatabase
RegisterPost(c, email, password) ==
    /\ Free(c)
    /\ requests < MaxRequests
    /\ requests' = requests + 1
    /\ LET h == [NoHandler EXCEPT !.kind = "register", !.email = email,
                                  !.password = password]
       IN IF Missing(email, password)
          THEN /\ Answer(c, h, Json(400, "Email and password are required"))
               /\ UNCHANGED dbvars
          ELSE /\ Request(c)
               /\ handler' = [handler EXCEPT ![c] = [h EXCEPT !.stage = "connect"]]
               /\ response' = [response EXCEPT ![c] = NoResponse]
    /\ UNCHANGED <<users, saves>>
    /\ UNCHANGED sitevars

\* lines 26, 52-59: connectToDatabase threw
RegisterConnectFailed(c) ==
    /\ handler[c].kind = "register" /\ handler[c].stage = "connect"
    /\ pc[c] = "threw"
    /\ Answer(c, handler[c], Json(500, "Failed to register user"))
    /\ UNCHANGED <<users, requests, saves>>
    /\ UNCHANGED sitevars
    /\ UNCHANGED dbvars

\* lines 31-39: look the email up
RegisterFindOne(c) ==
    /\ handler[c].kind = "register" /\ handler[c].stage = "connect"
    /\ pc[c] = "returned"
    /\ LET existingUser == FindOne(handler[c].email)
           h == [handler[c] EXCEPT !.user = existingUser]
       IN IF existingUser # NoUser
          THEN Answer(c, [h EXCEPT !.duplicate = TRUE], Json(400, "Email already exists"))
          ELSE /\ handler' = [handler EXCEPT ![c] = [h EXCEPT !.stage = "create"]]
               /\ UNCHANGED response
    /\ UNCHANGED <<users, requests, saves>>
    /\ UNCHANGED sitevars
    /\ UNCHANGED dbvars

\* lines 44-59: User.create({ email, password }): the pre-save hook, then the
\* insert, which the unique index may refuse
RegisterCreate(c, salt) ==
    /\ handler[c].kind = "register" /\ handler[c].stage = "create"
    /\ LET doc == NewUser(Len(users) + 1, handler[c].email, handler[c].password, salt)
       IN IF UniqueIndexRefuses(doc.email)
          THEN /\ Answer(c, [handler[c] EXCEPT !.duplicate = TRUE,
                                               !.thrown = "E11000 duplicate key error"],
                         Json(500, "Failed to register user"))
               /\ UNCHANGED users
          ELSE /\ users' = Append(users, doc)
               /\ Answer(c, handler[c], Json(201, "User registered successfully"))
    /\ UNCHANGED <<requests, saves>>
    /\ UNCHANGED sitevars
    /\ UNCHANGED dbvars

\* An existing user document is saved, with its password set to a new value
\* (modified) or left as loaded: the pre-save hook, then the update.
SaveUser(i, modified, password, salt) ==
    /\ i \in 1 .. Len(users)
    /\ saves < MaxSaves
    /\ saves' = saves + 1
    /\ password # << >>
    /\ LET loaded == users[i]
           doc == IF modified /\ password # loaded.password
                  THEN [loaded EXCEPT !.password = password, !.plain = password,
                                      !.kept = 0]
                  ELSE [loaded EXCEPT !.kept = @ + 1]
       IN users' = [users EXCEPT ![i] = PreSave(doc, doc.password # loaded.password, salt)]
    /\ UNCHANGED <<handler, response, requests>>
    /\ UNCHANGED sitevars
    /\ UNCHANGED dbvars

\* ---------------------------------------------------------------- authorize
\* auth.ts:27  thrown before the try block
\* (MissingCredentialsErrorMut: thrown inside it)
MissingCredentialsErrorMut == "Failed to log in"
MissingCredentialsError == "Missing email or password"

\* auth.ts:56-59  catch (error) { throw new Error("Failed to log in") }
\* (AuthorizeCatchMut: the error thrown again as it is)
AuthorizeCatchMut(error) == error
AuthorizeCatch(error) == "Failed to log in"

\* auth.ts:51-54  the identity returned
Identity(user) == [id |-> user.id, email |-> user.email]

Fail(c, h, error) ==
    Answer(c, [h EXCEPT !.thrown = error], Throw(AuthorizeCatch(error)))

\* auth.ts:24-32: check presence, call connectToDatabase
AuthorizeBegin(c, email, password) ==
    /\ Free(c)
    /\ requests < MaxRequests
    /\ requests' = requests + 1
    /\ LET h == [NoHandler EXCEPT !.kind = "authorize", !.email = email,
                                  !.password = password]
       IN IF Missing(email, password)
          THEN /\ Answer(c, [h EXCEPT !.thrown = MissingCredentialsError],
                         Throw(MissingCredentialsError))
               /\ UNCHANGED dbvars
          ELSE /\ Request(c)
               /\ handler' = [handler EXCEPT ![c] = [h EXCEPT !.stage = "connect"]]
               /\ response' = [response EXCEPT ![c] = NoResponse]
    /\ UNCHANGED <<users, saves>>
    /\ UNCHANGED sitevars

\* auth.ts:32, 56-59: connectToDatabase threw
AuthorizeConnectFailed(c) ==
    /\ handler[c].kind = "authorize" /\ handler[c].stage = "connect"
    /\ pc[c] = "threw"
    /\ Fail(c, handler[c], ret[c])
    /\ UNCHANGED <<users, requests, saves>>
    /\ UNCHANGED sitevars
    /\ UNCHANGED dbvars

\* auth.ts:35-40: look the user up
AuthorizeFindOne(c) ==
    /\ handler[c].kind = "authorize" /\ handler[c].stage = "connect"
    /\ pc[c] = "returned"
    /\ LET user == FindOne(handler[c].email)
           h == [handler[c] EXCEPT !.user = user]
       IN IF user = NoUser
          THEN Fail(c, h, "User not found")
          ELSE /\ handler' = [handler EXCEPT ![c] = [h EXCEPT !.stage = "compare"]]
               /\ UNCHANGED response
    /\ UNCHANGED <<users, requests, saves>>
    /\ UNCHANGED sitevars
    /\ UNCHANGED dbvars

\* auth.ts:43-54: compare the password with the stored hash
AuthorizeCompare(c) ==
    /\ handler[c].kind = "authorize" /\ handler[c].stage = "compare"
    /\ LET user == handler[c].user
           isValid == BcryptCompare(handler[c].password, user.password)
       IN IF ~isValid
          THEN Fail(c, handler[c], "Invalid password")
          ELSE Answer(c, handler[c], Return(Identity(user)))
    /\ UNCHANGED <<users, requests, saves>>
    /\ UNCHANGED sitevars
    /\ UNCHANGED dbvars

Register == \E c \in DOMAIN pc, body \in RegisterBodies : RegisterPost(c, body[1], body[2])
RegisterRefused == \E c \in DOMAIN pc : RegisterConnectFailed(c)
RegisterLookup == \E c \in DOMAIN pc : RegisterFindOne(c)
RegisterInsert == \E c \in DOMAIN pc, salt \in Salts : RegisterCreate(c, salt)
SaveUnchanged == \E i \in 1 .. Len(users) : SaveUser(i, FALSE, users[i].password, "s1")
SaveChanged ==
    \E i \in 1 .. Len(users), password \in Passwords, salt \in Salts :
        SaveUser(i, TRUE, password, salt)
Authorize ==
    \E c \in DOMAIN pc, credentials \in Credentials :
        AuthorizeBegin(c, credentials[1], credentials[2])
AuthorizeRefused == \E c \in DOMAIN pc : AuthorizeConnectFailed(c)
AuthorizeLookup == \E c \in DOMAIN pc : AuthorizeFindOne(c)
AuthorizeVerify == \E c \in DOMAIN pc : AuthorizeCompare(c)

\* The collection when the authorize calls begin: users that registered earlier.
AuthorizeStores ==
    { <<NewUser(1, "a@x.io", <<"p">>, "s1")>>,
      <<NewUser(1, "b@x.io", <<"q">>, "s2"), NewUser(2, "a@x.io", <<"q">>, "s1")>> }

RegisterInit == InitFor(Clients, << >>)
AuthorizeInit == \E store \in AuthorizeStores : InitFor(Clients, store)

RegisterNext ==
    \/ Register
    \/ RegisterRefused
    \/ RegisterLookup
    \/ RegisterInsert
    \/ SaveUnchanged
    \/ SaveChanged
    \/ RunCall
    \/ RunResume
    \/ Yield
    \/ ConnectRejects
    \/ ConnectWaits
    \/ ConnectSucceeds
    \/ ConnectFails

AuthorizeNext ==
    \/ Authorize
    \/ AuthorizeRefused
    \/ AuthorizeLookup
    \/ AuthorizeVerify
    \/ RunCall
    \/ RunResume
    \/ Yield
    \/ ConnectRejects
    \/ ConnectWaits
    \/ ConnectSucceeds
    \/ ConnectFails

SpecRegister == RegisterInit /\ [][RegisterNext]_vars
SpecAuthorize == AuthorizeInit /\ [][AuthorizeNext]_vars

\* ---------------------------------------------------------------- middleware
NumVisitors == 1
Visitors == 1 .. NumVisitors

\* A pathname is the sequence of the pieces of text it is made of.  No piece
\* is the beginning of another piece, so one pathname begins with another
\* exactly when its sequence of pieces does.
Pathnames ==
    { <<"/">>,
      <<"/", "login">>, <<"/", "login", "/", "x">>, <<"/", "login", "x">>,
      <<"/", "register">>, <<"/", "register", "x">>,
      <<"/", "api">>, <<"/", "api", "x">>,
      <<"/", "api", "/", "auth">>, <<"/", "api", "/", "auth", "/", "callback">>,
      <<"/", "api", "/", "auth", "x">>,
      <<"/", "api", "/", "videos">>, <<"/", "api", "/", "videos", "/", "x">>,
      <<"/", "api", "/", "image", "kit-auth">>,
      <<"/", "dashboard">>, <<"/", "dashboard", "/", "x">>, <<"/", "dashboard", " ">>,
      <<"/", "x">>, <<"/", "x", "/", "login">>,
      <<"/", "_next", "/", "static", "/", "x">>, <<"/", "_next", "/", "image">>,
      <<"/", "_next", "/", "data">>,
      <<"/", "favicon.ico">> }

\* auth.ts:67-72  the session token of a user, named by the id it carries;
\* null: no session
Tokens == {null, "token.id=1", "token.id=2"}

\* String.prototype.startsWith
StartsWith(pathname, prefix) ==
    Len(prefix) <= Len(pathname) /\ SubSeq(pathname, 1, Len(prefix)) = prefix

\* next-auth.d.ts:29-47  callbacks.authorized({ token, req })
\* (authorizedMut: the root path tested as a prefix)
authorizedMut(token, pathname) ==
    IF \/ StartsWith(pathname, <<"/", "api", "/", "auth">>)
       \/ StartsWith(pathname, <<"/", "login">>)
       \/ StartsWith(pathname, <<"/", "register">>)
    THEN TRUE
    ELSE IF StartsWith(pathname, <<"/">>) \/ StartsWith(pathname, <<"/", "api", "/", "videos">>)
    THEN TRUE
    ELSE token # null
authorized(token, pathname) ==
    IF \/ StartsWith(pathname, <<"/", "api", "/", "auth">>)
       \/ StartsWith(pathname, <<"/", "login">>)
       \/ StartsWith(pathname, <<"/", "register">>)
    THEN TRUE
    ELSE IF pathname = <<"/">> \/ StartsWith(pathname, <<"/", "api", "/", "videos">>)
    THEN TRUE
    ELSE token # null

\* next-auth.d.ts:55  matcher: ["/((?!api|_next/static|_next/image|favicon.ico).*) "]
\* A pathname is handed to the middleware when, after its first "/", it does
\* not begin with one of the four alternatives.  The pattern ends with a
\* blank: a build that keeps it ("literal") asks the pathname to end with a
\* blank too, a build that drops it ("ignored") does not.
Builds == {"literal", "ignored"}
Matcher(pathname, blank) ==
    /\ StartsWith(pathname, <<"/">>)
    /\ LET rest == Tail(pathname) IN
       /\ ~StartsWith(rest, <<"api">>)
       /\ ~StartsWith(rest, <<"_next", "/", "static">>)
       /\ ~StartsWith(rest, <<"_next", "/", "image">>)
       /\ ~StartsWith(rest, <<"favicon.ico">>)
       /\ blank = "literal" => (rest # << >> /\ rest[Len(rest)] = " ")

\* A request: `stage` is how far the server has taken it, `evaluated` whether
\* the authorized callback has been called for it.
NoVisit == [pathname |-> << >>, token |-> null, stage |-> "none",
            evaluated |-> FALSE, isAuthorized |-> FALSE]

\* A request arrives.
Receive(v, pathname, token) ==
    /\ visits[v].stage = "none"
    /\ visits' = [visits EXCEPT ![v] = [NoVisit EXCEPT !.pathname = pathname,
                                                       !.token = token,
                                                       !.stage = "received"]]
    /\ UNCHANGED <<evaluations, build>>
    /\ UNCHANGED <<dbvars, users, handler, response, requests, saves>>

\* next-auth.d.ts:53-56  the server tests config.matcher: a pathname that
\* matches goes to the middleware, any other straight to its route.
Match(v) ==
    /\ visits[v].stage = "received"
    /\ visits' = [visits EXCEPT ![v].stage =
                     IF Matcher(visits[v].pathname, build) THEN "middleware"
                     ELSE "application"]
    /\ UNCHANGED <<evaluations, build>>
    /\ UNCHANGED <<dbvars, users, handler, response, requests, saves>>

\* next-auth.d.ts:20-50  withAuth calls the authorized callback; when it
\* returns true, middleware() answers NextResponse.next() and the request goes
\* on to its route, otherwise withAuth redirects to the sign-in page.
withAuth(v) ==
    /\ visits[v].stage = "middleware"
    /\ LET isAuthorized == authorized(visits[v].token, visits[v].pathname) IN
       visits' = [visits EXCEPT ![v].evaluated = TRUE,
                                ![v].isAuthorized = isAuthorized,
                                ![v].stage = IF isAuthorized THEN "application"
                                             ELSE "redirected"]
    /\ UNCHANGED <<evaluations, build>>
    /\ UNCHANGED <<dbvars, users, handler, response, requests, saves>>

NoConnection ==
    /\ cached = [conn |-> null, promise |-> NoPromise]
    /\ promises = << >>
    /\ reactions = << >>
    /\ mq = << >>
    /\ pc = << >>
    /\ awaited = << >>
    /\ ret = << >>
    /\ began = << >>
    /\ calls = 0
    /\ users = << >>
    /\ handler = << >>
    /\ response = << >>
    /\ requests = 0
    /\ saves = 0
    /\ evaluations = 1

\* The callback on its own: it is handed any token and any pathname.
CallbackInit ==
    /\ NoConnection
    /\ build = "ignored"
    /\ visits \in [Visitors -> {[NoVisit EXCEPT !.pathname = pathname, !.token = token,
                                                !.stage = "middleware"] :
                                   pathname \in Pathnames, token \in Tokens}]

\* The server in front of the routes.
MiddlewareInit ==
    /\ NoConnection
    /\ build \in Builds
    /\ visits = [v \in Visitors |-> NoVisit]

Arrive ==
    \E v \in Visitors, pathname \in Pathnames, token \in Tokens : Receive(v, pathname, token)
Route == \E v \in Visitors : Match(v)
Guard == \E v \in Visitors : withAuth(v)

CallbackNext == Guard

MiddlewareNext ==
    \/ Arrive
    \/ Route
    \/ Guard

SpecCallback == CallbackInit /\ [][CallbackNext]_vars
SpecMiddleware == MiddlewareInit /\ [][MiddlewareNext]_vars

\* ================================================================ claims
Began(c) == pc[c] \in {"awaiting", "returned", "threw"}
InFlight == {p \in 1 .. Len(promises) : promises[p] \in {"pending", "io"}}
Established == {p \in 1 .. Len(promises) : promises[p] = "fulfilled"}
\* the calls that began before any connection attempt had completed
FirstCohort == {c \in DOMAIN pc : Began(c) /\ ~began[c].settled}

\* C1: the calls that begin before any connection attempt has completed start
\* exactly one mongoose.connect attempt between them, all await that attempt,
\* and each ends with its outcome: the handle if it succeeded, the
\* connection-failure error if it failed.
C1_SingleFlight ==
    /\ (FirstCohort # {} /\ ~AnySettled) => Len(promises) = 1
    /\ Cardinality({c \in FirstCohort : began[c].started}) <= 1
    /\ \A c \in FirstCohort :
         /\ awaited[c] = 1
         /\ pc[c] = "returned" => promises[1] = "fulfilled" /\ ret[c] = MongooseConnection
         /\ pc[c] = "threw" => promises[1] = "rejected" /\ ret[c] = DatabaseConnectionFailed

C1_Witness ==
    \E c1, c2 \in FirstCohort :
        /\ c1 # c2
        /\ pc[c1] = "threw" /\ pc[c2] = "threw"
        /\ Len(promises) = 1

\* C2 (as claimed): no connection attempt is started while another is still in
\* flight, so at most one attempt is ever in flight and at most one connection
\* is ever established.
C2_OneAttemptInFlight ==
    /\ Cardinality(InFlight) <= 1
    /\ Cardinality(Established) <= 1

\* C3: once cached.conn holds a handle it is never cleared or replaced, and a
\* call that begins afterwards returns that handle at once, without awaiting
\* or starting a connection attempt.
C3_HandleIsKept ==
    /\ [][cached.conn # null => cached'.conn = cached.conn]_vars
    /\ [](\A c \in DOMAIN pc :
            (Began(c) /\ began[c].conn # null) =>
                /\ pc[c] = "returned"
                /\ ret[c] = began[c].conn
                /\ ret[c] = cached.conn
                /\ ~began[c].started
                /\ awaited[c] = NoPromise)

C3_Witness ==
    \E c \in DOMAIN pc :
        Began(c) /\ began[c].conn = MongooseConnection /\ ret[c] = MongooseConnection

\* C4 (as claimed): once an attempt has failed, its waiters get the
\* connection-failure error, the stored attempt is discarded, and no call that
\* begins after the failure is handed the failed attempt.
C4_FailureDoesNotPoison ==
    \A c \in DOMAIN pc :
        /\ pc[c] = "threw" => ret[c] = DatabaseConnectionFailed /\ cached.promise # awaited[c]
        /\ Began(c) => ~began[c].stale

Registered(c) == handler[c].kind = "register" /\ handler[c].stage = "done"
Authorized(c) == handler[c].kind = "authorize" /\ handler[c].stage = "done"
\* the handler passed its presence check and its connectToDatabase call returned
Connected(c) == pc[c] = "returned" /\ ~Missing(handler[c].email, handler[c].password)

\* C5: the User collection never holds two documents with the same email,
\* also when two registrations of one email both pass the existence check
\* before either creates.
C5_EmailsUnique ==
    \A i, j \in 1 .. Len(users) : users[i].email = users[j].email => i = j

C5_Witness ==
    \E c1, c2 \in DOMAIN pc :
        /\ c1 # c2
        /\ Registered(c1) /\ Registered(c2)
        /\ handler[c1].email = handler[c2].email
        /\ handler[c1].user = NoUser /\ handler[c2].user = NoUser
        /\ response[c1].status = 201 /\ response[c2].status = 500

\* C6 (as claimed): a registration that fails because its email is already
\* stored is answered 400 "Email already exists".
C6_DuplicateAnswered400 ==
    \A c \in DOMAIN pc :
        (Registered(c) /\ handler[c].duplicate) =>
            response[c].status = 400 /\ response[c].message = "Email already exists"

\* C7: no stored user document holds the plaintext it was given: the password
\* field is the bcrypt hash of that plaintext, after a registration and after
\* a save that changes the password.
C7_NoPlaintextStored ==
    \A i \in 1 .. Len(users) :
        /\ users[i].password # users[i].plain
        /\ \E salt \in Salts : users[i].password = <<"$2a$10$", salt>> \o users[i].plain

C7_Witness ==
    /\ saves > 0
    /\ \E c \in DOMAIN pc : Registered(c) /\ response[c].status = 201
    /\ \E i \in 1 .. Len(users) : users[i].email = "a@x.io" /\ users[i].plain = <<"q">>

\* a stored user with this email whose password field is a hash of this password
HashedFor(email, password) ==
    {i \in 1 .. Len(users) :
        /\ users[i].email = email
        /\ \E salt \in Salts : users[i].password = <<"$2a$10$", salt>> \o password}

\* C8: with the connection obtained, authorize succeeds exactly for an email
\* and password of a stored user whose password field is the hash of that
\* password, and then returns that user's id and email and nothing else.
C8_AuthorizeExactlyTheOwner ==
    \A c \in DOMAIN pc :
        Authorized(c) =>
            LET owners == HashedFor(handler[c].email, handler[c].password) IN
            /\ (Connected(c) /\ owners # {}) =>
                   /\ response[c].type = "return"
                   /\ \E i \in owners :
                        response[c].value = [id |-> users[i].id, email |-> users[i].email]
            /\ response[c].type = "return" =>
                   Connected(c) /\ owners # {}

C8_Witness ==
    \E c1, c2 \in DOMAIN pc :
        /\ Authorized(c1) /\ response[c1].type = "return"
        /\ response[c1].value = [id |-> 2, email |-> "a@x.io"]
        /\ Authorized(c2) /\ handler[c2].email = "a@x.io" /\ response[c2].type = "throw"
        /\ Connected(c2)

UnknownEmail(c) ==
    /\ Authorized(c) /\ Connected(c)
    /\ \A i \in 1 .. Len(users) : users[i].email # handler[c].email
WrongPassword(c) ==
    /\ Authorized(c) /\ Connected(c)
    /\ \E i \in 1 .. Len(users) : users[i].email = handler[c].email
    /\ HashedFor(handler[c].email, handler[c].password) = {}

\* C9: an authorize call with an email no user has and one with a stored
\* email but a wrong password end in the same error.
C9_NoEnumeration ==
    \A c1, c2 \in DOMAIN pc :
        (UnknownEmail(c1) /\ WrongPassword(c2)) =>
            /\ response[c1].type = "throw"
            /\ response[c1] = response[c2]

C9_Witness ==
    \E c1, c2 \in DOMAIN pc :
        /\ UnknownEmail(c1) /\ handler[c1].thrown = "User not found"
        /\ WrongPassword(c2) /\ handler[c2].thrown = "Invalid password"

\* C10 (as claimed): every failure of authorize (missing email or password,
\* connection failure, unknown user, wrong password) reaches the caller as one
\* and the same error.
C10_OneErrorForAll ==
    \A c1, c2 \in DOMAIN pc :
        (Authorized(c1) /\ Authorized(c2)
            /\ response[c1].type = "throw" /\ response[c2].type = "throw") =>
                response[c1].message = response[c2].message

\* C10 (amended): a connection failure, an unknown user and a wrong password
\* all reach the caller as "Failed to log in"; a missing email or password
\* reaches it as "Missing email or password".
C10_OneErrorAfterValidation ==
    \A c \in DOMAIN pc :
        (Authorized(c) /\ response[c].type # "return") =>
            /\ response[c].type = "throw"
            /\ handler[c].thrown \in {"Missing email or password", "User not found",
                                      "Invalid password", "Database connection failed."}
            /\ response[c].message =
                  IF handler[c].email = "" \/ handler[c].password = << >>
                  THEN "Missing email or password"
                  ELSE "Failed to log in"

C10_Witness ==
    \E c1, c2 \in DOMAIN pc :
        /\ Authorized(c1) /\ handler[c1].thrown = "Missing email or password"
        /\ response[c1].message = "Missing email or password"
        /\ Authorized(c2) /\ handler[c2].thrown = "Database connection failed."
        /\ response[c2].message = "Failed to log in"

\* C11: a save of an existing user document that does not modify the password
\* field leaves the stored hash as it was, however many such saves follow one
\* another: the stored value stays the single hash of the plaintext last
\* assigned.
C11_UnmodifiedSaveKeepsHash ==
    /\ [][\A i \in 1 .. Len(users) :
            users'[i].kept > users[i].kept => users'[i].password = users[i].password]_vars
    /\ [](\A i \in 1 .. Len(users) :
            users[i].kept > 0 =>
                \E salt \in Salts : users[i].password = BcryptHash(users[i].plain, salt))

C11_Witness ==
    \E i \in 1 .. Len(users) :
        /\ users[i].kept = 2
        /\ users[i].plain = <<"q">>
        /\ users[i].password = BcryptHash(<<"q">>, "s2")

\* the paths the predicate is to let through without a session: the
\* authentication paths, the login and registration pages, the root path and
\* the public listing API, each with the paths that begin with it (the root
\* path alone)
DeclaredPublic ==
    { <<"/">>,
      <<"/", "login">>, <<"/", "login", "/", "x">>, <<"/", "login", "x">>,
      <<"/", "register">>, <<"/", "register", "x">>,
      <<"/", "api", "/", "auth">>, <<"/", "api", "/", "auth", "/", "callback">>,
      <<"/", "api", "/", "auth", "x">>,
      <<"/", "api", "/", "videos">>, <<"/", "api", "/", "videos", "/", "x">> }

\* C12: the authorized callback returns true whatever the token for an
\* authentication path, the login or registration page, the root path and a
\* public listing API path (paths classed by how they begin, the root path by
\* equality); for every other path it returns true exactly when there is a
\* session token.
C12_AuthorizedPredicate ==
    \A v \in DOMAIN visits :
        visits[v].evaluated =>
            visits[v].isAuthorized =
                (visits[v].pathname \in DeclaredPublic \/ visits[v].token # null)

C12_Witness ==
    \E v \in DOMAIN visits :
        /\ visits[v].evaluated
        /\ visits[v].pathname = <<"/", "dashboard">>
        /\ visits[v].token = null
        /\ ~visits[v].isAuthorized

\* the framework-internal and static-asset paths
Internal(pathname) ==
    \/ StartsWith(pathname, <<"/", "_next", "/", "static">>)
    \/ StartsWith(pathname, <<"/", "_next", "/", "image">>)
    \/ StartsWith(pathname, <<"/", "favicon.ico">>)

\* C13 (as claimed): the authorized callback is called for every request
\* whose path is not a framework-internal or static-asset path, so a request
\* without a session token reaches its route only if the predicate declares
\* its path public.
C13_PredicateGuardsEveryPath ==
    \A v \in DOMAIN visits :
        (visits[v].stage \in {"application", "redirected"} /\ ~Internal(visits[v].pathname)) =>
            /\ visits[v].evaluated
            /\ (visits[v].stage = "application" /\ visits[v].token = null) =>
                   visits[v].pathname \in DeclaredPublic

\* C14 (as claimed): when the db module is evaluated again it has the cache
\* entry it had before, handle and stored attempt, so no call made after the
\* reload starts a connection attempt beside one that is in flight or
\* established.
C14_EntrySurvivesReload ==
    /\ [][evaluations' # evaluations => cached' = cached]_vars
    /\ [](Cardinality(InFlight \cup Established) <= 1)

====
